---- MODULE Spec2Model ----
(***************************************************************************)
(* Verification model of the chill_z client and its SQL migrations.        *)
(*                                                                         *)
(*  - SafeImage / ImageLoadManager (src/components/ui/verified-badge.tsx): *)
(*    bounded-concurrency load queue, retry with exponential backoff,      *)
(*    fallback chains, demo (low bandwidth) mode.                          *)
(*  - award_post_points trigger on posts (rewards, reward notification).   *)
(*  - stories table, its row-level-security policies, StoriesBar and       *)
(*    StoryUploadSheet.                                                    *)
(*  - createSafeImageFallback, the policies and constraints of the social  *)
(*    tables, Composer (pages/Home.tsx), and the like and pin handlers of   *)
(*    FeedCard and StoryViewer.                                            *)
(*                                                                         *)
(* Time is in milliseconds for the image loader (as in the code) and in    *)
(* hours for stories.                                                      *)
(***************************************************************************)
EXTENDS Integers, Sequences, FiniteSets, Bags, TLC

(***************************************************************************)
(* Bounds of the model.                                                    *)
(***************************************************************************)
\* number of SafeImage instances mounted on the page
NumImages == 5
\* number of values Math.random() is sampled at (spread over [0, 1))
RandomSamples == 2
\* maxRetries prop given to the instances of the load-manager scenario
MgrRetries == 1

Images == 1..NumImages

(***************************************************************************)
(* Program constants of verified-badge.tsx.                                *)
(***************************************************************************)
maxConcurrent == 4
DefaultMaxRetries == 3
DemoSkipThreshold == 2
BackoffBaseMs == 1000
BackoffJitterMs == 1000
StaggerMs == 100

FALLBACK_AVATAR == "/assets/img/avatar-fallback.png"
FALLBACK_IMAGE == "/assets/img/fallback-400x300.png"

Undefined == "undefined"
\* demoSkipIndex not given
NoIndex == 0 - 1
NoError == "null"
ErrLoad == "Failed to load image"
ErrValidation == "URL validation failed"
ErrAllFailed == "All image sources failed"

(***************************************************************************)
(* URLs.  A URL is a string; what the code asks of a URL is which provider *)
(* markers it includes (String.includes) and whether it has a query part.  *)
(***************************************************************************)
SupabaseUrl == "https://proj.supabase.co/storage/v1/object/public/posts/a.png"
ClearbitUrl == "https://logo.clearbit.com/acme.com"
LocalLogoUrl == "/assets/logos/local-acme.png"
DefaultLogoUrl == "/assets/logos/default.png"
DicebearUrl == "https://api.dicebear.com/7.x/avataaars/svg?seed=al"
PravatarUrl == "https://i.pravatar.cc/150?u=al"
UnsplashUrl == "https://source.unsplash.com/800x600/?cats"
UnsplashBareUrl == "https://source.unsplash.com/800x600/"
PicsumUrl == "https://picsum.photos/800/600?random=7"
OtherUrl == "https://cdn.example.org/pic.png"
CustomFallbackUrl == "https://cdn.example.org/fallback.png"
NoFallback == Undefined

\* the src props the instances are given
SrcSamples ==
  {SupabaseUrl, ClearbitUrl, DicebearUrl, PravatarUrl, UnsplashUrl,
   UnsplashBareUrl, PicsumUrl, OtherUrl}

\* originalSrc.includes(marker)
Includes(url, marker) ==
  CASE marker = "supabase.co/storage" -> url = SupabaseUrl
    [] marker = "logo.clearbit.com" -> url = ClearbitUrl
    [] marker = "dicebear.com" -> url = DicebearUrl
    [] marker = "pravatar.cc" -> url = PravatarUrl
    [] marker = "unsplash.com" -> url \in {UnsplashUrl, UnsplashBareUrl}
    [] marker = "picsum.photos" -> url = PicsumUrl
    [] OTHER -> FALSE

\* a URL of the page's own origin (the bundled assets); the rest are remote
IsLocal(url) ==
  url \in {FALLBACK_AVATAR, FALLBACK_IMAGE, LocalLogoUrl, DefaultLogoUrl}

getAvatarFallbacks == <<DicebearUrl, PravatarUrl, FALLBACK_AVATAR>>

\* the brand chain with the default logo ahead of the brand's own asset
getBrandLogoFallbacksSwapped == <<ClearbitUrl, DefaultLogoUrl, LocalLogoUrl>>

getBrandLogoFallbacks == <<ClearbitUrl, LocalLogoUrl, DefaultLogoUrl>>

\* the content chain without its bundled last resort
getContentImageFallbacksRemoteOnly(hasTopic) ==
  (IF hasTopic THEN <<UnsplashUrl>> ELSE <<>>) \o <<PicsumUrl>>

\* topic is the part after '?' of an unsplash URL (undefined when absent)
getContentImageFallbacks(hasTopic) ==
  (IF hasTopic THEN <<UnsplashUrl>> ELSE <<>>) \o <<PicsumUrl, FALLBACK_IMAGE>>

getFallbackSources(originalSrc, fallbackProp) ==
  IF fallbackProp # NoFallback THEN <<originalSrc, fallbackProp>>
  ELSE IF Includes(originalSrc, "supabase.co/storage") THEN <<originalSrc>>
  ELSE IF Includes(originalSrc, "logo.clearbit.com") THEN getBrandLogoFallbacks
  ELSE IF Includes(originalSrc, "dicebear.com") \/ Includes(originalSrc, "pravatar.cc")
    THEN getAvatarFallbacks
  ELSE IF Includes(originalSrc, "unsplash.com") \/ Includes(originalSrc, "picsum.photos")
    THEN getContentImageFallbacks(originalSrc = UnsplashUrl)
  ELSE <<originalSrc, FALLBACK_IMAGE>>

MaxSources == 3

(***************************************************************************)
(* Math.random(): a value of [0, 1), in thousandths.                       *)
(***************************************************************************)
RandomPermille == {(k * 999) \div (RandomSamples - 1) : k \in 0..(RandomSamples - 1)}

\* a backoff that grows by a second per attempt instead of doubling
BackoffDelayLinear(att, rnd) == (att + 1) * BackoffBaseMs + (rnd * BackoffJitterMs) \div 1000

\* Math.pow(2, attempt) * 1000 + Math.random() * 1000
BackoffDelay(att, rnd) == (2 ^ att) * BackoffBaseMs + (rnd * BackoffJitterMs) \div 1000

\* Math.random() * 100
StaggerDelay(rnd) == (rnd * StaggerMs) \div 1000

VARIABLES
  rng,                 \* the values Math.random() takes in this run
  demoMode,            \* isDemoMode()
  localAssetsPresent,  \* the bundled /assets files are deployed
  src, fallback, demoSkipIndex, maxRetries, lowBandwidth,   \* props
  activeLoads, queue,  \* ImageLoadManager
  pc, srcIdx, attempt, \* position of loadWithFallbacks / loadImage
  currentSrc, isLoading, error, retryCount,   \* React state
  delay, waited,       \* the pending setTimeout of an instance
  requests,            \* requests[i][k]: times img.src was set to source k
  sourceState,         \* sourceState[i][k]: what became of source k
  held                 \* held[i]: slots granted to instance i and not yet released

imgVars ==
  <<rng, demoMode, localAssetsPresent, src, fallback, demoSkipIndex, maxRetries,
    lowBandwidth, activeLoads, queue, pc, srcIdx, attempt, currentSrc,
    isLoading, error, retryCount, delay, waited, requests, sourceState, held>>

VARIABLES
  rewards,        \* profiles.rewards by user_id
  rewards0,       \* profiles.rewards before any post was inserted
  posts,          \* rows of posts: [id, user_id, is_spark]
  notifications,  \* rows of notifications (a bag: ids and order left out)
  nextPostId,     \* gen_random_uuid(): ids are never reused
  notifCascade,   \* notifications.post_id references posts ON DELETE CASCADE
  toNotify,       \* posts whose Composer has not yet sent its own notification
  sparkInserts, postInserts,  \* rows inserted per user with is_spark true / false
  dbResult        \* outcome of the last statement

dbVars ==
  <<rewards, rewards0, posts, notifications, nextPostId, notifCascade, toNotify,
    sparkInserts, postInserts, dbResult>>

VARIABLES
  now,          \* the server's now()
  stories,      \* rows of stories: [id, user_id, created_at, expires_at]
  nextStoryId,  \* gen_random_uuid(): ids are never reused
  storyGroups,  \* StoriesBar state: the rows the last loadStories returned
  justLoaded,   \* no time has passed since that query ran
  storyResult   \* outcome of the last statement

storyVars == <<now, stories, nextStoryId, storyGroups, justLoaded, storyResult>>

VARIABLES
  fallbackSrc,    \* createSafeImageFallback: the fallbackSrc argument ("" for none)
  attempts,       \* its attempts counter
  listening,      \* its error listener is attached (the cleanup was not called)
  imgSrc,         \* what img.src holds: "original" or "fallback"
  imgState,       \* the element: "loading", "waiting" (retry timer set), "shown", "broken"
  retryDelay, retryWaited,      \* the pending retry timer, in seconds
  originalLoads, fallbackLoads  \* loads started of the original and the fallback URL

fbVars ==
  <<fallbackSrc, attempts, listening, imgSrc, imgState, retryDelay, retryWaited,
    originalLoads, fallbackLoads>>

VARIABLES
  tables,      \* rows [id, user_id, ref] of stories, story_likes, story_comments,
               \* reposts, pinned_posts, comment_likes; ref is the story, post or
               \* comment the row points at (0 for a story)
  nextRowId,   \* gen_random_uuid(): ids are never reused
  actor,       \* auth.uid() of the last statement
  rlsResult,   \* outcome of the last statement
  cascaded     \* rows the last statement removed through ON DELETE CASCADE

rlsVars == <<tables, nextRowId, actor, rlsResult, cascaded>>

VARIABLES
  session,       \* Composer: the user supabase.auth.getUser() returns
  postType, caption, selectedFile, previewUrl, uploading,   \* Composer state
  composerPc,    \* position of handlePublish
  pubType,       \* postType as the running handlePublish sees it
  uploads,       \* storage objects: [bucket, type]
  postFiles,     \* per posts row of Composer: [post_id, content_type, file_type]
  composerToast  \* title of the last toast

compVars ==
  <<session, postType, caption, selectedFile, previewUrl, uploading, composerPc,
    pubType, uploads, postFiles, composerToast>>

VARIABLES
  viewer,        \* FeedCard / StoryViewer: the user supabase.auth.getUser() returns
  likes,         \* rows of likes for (post.id, viewer)
  likeNotifs,    \* rows handleLike inserted into notifications, in order
  likesCreated,  \* rows of likes handleLike created
  pinnedRow,     \* pinned_posts holds the row (viewer, post.id)
  storyLikeRow,  \* story_likes holds the row (currentStory.id, viewer)
  isLiked, likesCount, isPinned, pinning,   \* FeedCard state
  currentUser, liked, storyLikesCount,      \* StoryViewer state
  likePc, likeSaw,    \* position of FeedCard.handleLike, isLiked as it sees it
  pinPc, pinSaw,      \* position of handleTogglePin, isPinned as it sees it
  storyPc, storySaw,  \* position of StoryViewer.handleLike, liked as it sees it
  likeTaps,           \* clicks on the like button of the card
  toastShown,         \* title of the toast the last step showed ("none" if none)
  rejected            \* the handler whose write the backend rejected in the last step

feedVars ==
  <<viewer, likes, likeNotifs, likesCreated, pinnedRow, storyLikeRow, isLiked,
    likesCount, isPinned, pinning, currentUser, liked, storyLikesCount, likePc,
    likeSaw, pinPc, pinSaw, storyPc, storySaw, likeTaps, toastShown, rejected>>

\* the state outside SafeImage, posts and stories
restVars == <<fbVars, rlsVars, compVars, feedVars>>

\* the state outside createSafeImageFallback
notFb == <<imgVars, dbVars, storyVars, rlsVars, compVars, feedVars>>

\* the state outside the six tables
notRls == <<imgVars, dbVars, storyVars, fbVars, compVars, feedVars>>

\* the state outside Composer and the database
notComp == <<imgVars, storyVars, fbVars, rlsVars, feedVars>>

\* the state outside FeedCard and StoryViewer
notFeed == <<imgVars, dbVars, storyVars, fbVars, rlsVars, compVars>>

Sources(i) == getFallbackSources(src[i], fallback[i])

Url(i) == Sources(i)[srcIdx[i]]

\* the demo threshold off by one: index 3 is loaded too
shouldSkipInDemoLate(i) ==
  demoMode /\ demoSkipIndex[i] # NoIndex /\ demoSkipIndex[i] > DemoSkipThreshold + 1

shouldSkipInDemo(i) ==
  demoMode /\ demoSkipIndex[i] # NoIndex /\ demoSkipIndex[i] > DemoSkipThreshold

effectiveLowBandwidth(i) == lowBandwidth[i] \/ shouldSkipInDemo(i)

\* what the component renders: the low-bandwidth placeholder, or the loading
\* skeleton, the <img> of currentSrc and the error box
Render(i) ==
  IF effectiveLowBandwidth(i) /\ currentSrc[i] = ""
    THEN {"placeholder"}
    ELSE (IF isLoading[i] THEN {"skeleton"} ELSE {})
         \cup (IF currentSrc[i] # "" THEN {currentSrc[i]} ELSE {})
         \cup (IF error[i] # NoError /\ currentSrc[i] = "" THEN {"unavailable"} ELSE {})

(***************************************************************************)
(* ImageLoadManager.  m is [activeLoads, queue]; the queue holds the       *)
(* instance whose callback waits.                                          *)
(***************************************************************************)
\* canLoad with the comparison off by one
canLoadOffByOne(m) == m.activeLoads <= maxConcurrent

canLoad(m) == m.activeLoads < maxConcurrent

\* startLoad: ran tells whether the callback was called at once
startLoad(m, i) ==
  IF canLoad(m)
    THEN [activeLoads |-> m.activeLoads + 1, queue |-> m.queue, ran |-> TRUE]
    ELSE [activeLoads |-> m.activeLoads, queue |-> Append(m.queue, i), ran |-> FALSE]

\* a finishLoad that forgets this.activeLoads--
finishLoadNoDecrement(m) ==
  IF Len(m.queue) > 0
    THEN [activeLoads |-> m.activeLoads + 1, queue |-> Tail(m.queue),
          next |-> Head(m.queue)]
    ELSE [activeLoads |-> m.activeLoads, queue |-> m.queue, next |-> 0]

\* a finishLoad that frees the slot and leaves the queue alone
finishLoadNoHandover(m) ==
  [activeLoads |-> m.activeLoads - 1, queue |-> m.queue, next |-> 0]

\* finishLoad: next is the instance whose callback was handed to setTimeout
finishLoad(m) ==
  IF Len(m.queue) > 0
    THEN [activeLoads |-> (m.activeLoads - 1) + 1, queue |-> Tail(m.queue),
          next |-> Head(m.queue)]
    ELSE [activeLoads |-> m.activeLoads - 1, queue |-> m.queue, next |-> 0]

Mgr == [activeLoads |-> activeLoads, queue |-> queue]

(***************************************************************************)
(* What the network can answer for a URL.                                  *)
(***************************************************************************)
\* checkImageUrl: a no-cors HEAD of a remote URL is opaque (status 0) or
\* throws, both give true; a same-origin HEAD gives response.ok
checkImageUrl(url) ==
  IF IsLocal(url) /\ ~localAssetsPresent THEN BOOLEAN ELSE {TRUE}

CanLoadOk(url) == TRUE

CanLoadFail(url) == ~(IsLocal(url) /\ localAssetsPresent)

(***************************************************************************)
(* loadImage(srcToLoad, attempt) up to its first suspension, for instance  *)
(* i with manager state m and React state st.  managed tells whether the   *)
(* call went to the load manager.                                          *)
(***************************************************************************)
loadImage(i, att, m, st) ==
  IF effectiveLowBandwidth(i) /\ att = 0
    THEN [pc |-> "done", activeLoads |-> m.activeLoads, queue |-> m.queue,
          currentSrc |-> FALLBACK_IMAGE, isLoading |-> FALSE, error |-> st.error,
          managed |-> FALSE]
    ELSE LET s == startLoad(m, i) IN
         IF s.ran
           THEN [pc |-> "validating", activeLoads |-> s.activeLoads, queue |-> s.queue,
                 currentSrc |-> st.currentSrc, isLoading |-> TRUE, error |-> NoError,
                 managed |-> TRUE]
           ELSE [pc |-> "queued", activeLoads |-> s.activeLoads, queue |-> s.queue,
                 currentSrc |-> st.currentSrc, isLoading |-> st.isLoading,
                 error |-> st.error, managed |-> TRUE]

\* a catch that forgets setIsLoading(false) after the last source
loadWithFallbacksCatchStillLoading(i, m, st) ==
  IF srcIdx[i] = Len(Sources(i))
    THEN [pc |-> "failed", activeLoads |-> m.activeLoads, queue |-> m.queue,
          currentSrc |-> "", isLoading |-> st.isLoading, error |-> ErrAllFailed,
          managed |-> FALSE, srcIdx |-> srcIdx[i]]
    ELSE [srcIdx |-> srcIdx[i] + 1] @@ loadImage(i, 0, m, st)

\* the catch of loadWithFallbacks after loadImage(sources[k]) rejected:
\* the final error state after the last source, else the next source
loadWithFallbacksCatch(i, m, st) ==
  IF srcIdx[i] = Len(Sources(i))
    THEN [pc |-> "failed", activeLoads |-> m.activeLoads, queue |-> m.queue,
          currentSrc |-> "", isLoading |-> FALSE, error |-> ErrAllFailed,
          managed |-> FALSE, srcIdx |-> srcIdx[i]]
    ELSE [srcIdx |-> srcIdx[i] + 1] @@ loadImage(i, 0, m, st)

St(i) == [currentSrc |-> currentSrc[i], isLoading |-> isLoading[i], error |-> error[i]]

\* the state after a step of instance i with outcome r, where dq is the
\* instance finishLoad took off the queue (0 for none) and rs the random
\* number of its stagger timer
Apply(i, r, dq, rs) ==
  /\ activeLoads' = r.activeLoads
  /\ queue' = r.queue
  /\ pc' = [j \in Images |-> IF j = i THEN r.pc ELSE IF j = dq THEN "stagger" ELSE pc[j]]
  /\ currentSrc' = [currentSrc EXCEPT ![i] = r.currentSrc]
  /\ isLoading' = [isLoading EXCEPT ![i] = r.isLoading]
  /\ error' = [error EXCEPT ![i] = r.error]
  /\ delay' = [j \in Images |-> IF j = dq THEN StaggerDelay(rs)
                                ELSE IF j = i THEN 0 ELSE delay[j]]
  /\ waited' = [j \in Images |-> IF j = dq \/ j = i THEN 0 ELSE waited[j]]

\* the slots held after a step of instance i: released tells whether the
\* step called finishLoad, r.pc = "validating" that startLoad ran its
\* callback at once, dq is the instance finishLoad took off the queue
Held(i, released, r, dq) ==
  held' = [j \in Images |->
             held[j] - (IF j = i /\ released THEN 1 ELSE 0)
                     + (IF j = i /\ r.pc = "validating" THEN 1 ELSE 0)
                     + (IF j = dq THEN 1 ELSE 0)]

\* what no step of a SafeImage changes: the props, the database
Props ==
  <<rng, demoMode, localAssetsPresent, src, fallback, demoSkipIndex, maxRetries,
    lowBandwidth, dbVars, storyVars, restVars>>

\* useEffect: if (isInView && src) loadWithFallbacks()
Mount(i) ==
  /\ pc[i] = "idle"
  /\ src[i] # ""
  /\ LET r == loadImage(i, 0, Mgr, St(i)) IN
       /\ Apply(i, r, 0, 0)
       /\ Held(i, FALSE, r, 0)
       /\ sourceState' = [sourceState EXCEPT ![i][1] = IF r.managed THEN "pending" ELSE @]
  /\ srcIdx' = [srcIdx EXCEPT ![i] = 1]
  /\ attempt' = [attempt EXCEPT ![i] = 0]
  /\ UNCHANGED <<Props, retryCount, requests>>

\* the stagger timer of a dequeued callback fires: the callback starts
StaggerFire(i) ==
  /\ pc[i] = "stagger"
  /\ waited[i] >= delay[i]
  /\ pc' = [pc EXCEPT ![i] = "validating"]
  /\ isLoading' = [isLoading EXCEPT ![i] = TRUE]
  /\ error' = [error EXCEPT ![i] = NoError]
  /\ delay' = [delay EXCEPT ![i] = 0]
  /\ waited' = [waited EXCEPT ![i] = 0]
  /\ UNCHANGED <<Props, activeLoads, queue, srcIdx, attempt, currentSrc, retryCount,
                 requests, sourceState, held>>

\* await checkImageUrl(srcToLoad) returns ok
ValidationDone(i, ok, rs) ==
  /\ pc[i] = "validating"
  /\ ok \in checkImageUrl(Url(i))
  /\ IF ~ok /\ attempt[i] = 0
       THEN \* throw, caught: finishLoad, setError, reject
            LET f == finishLoad(Mgr)
                r == loadWithFallbacksCatch(i, f, [St(i) EXCEPT !.error = ErrValidation])
            IN /\ Apply(i, r, f.next, rs)
               /\ Held(i, TRUE, r, f.next)
               /\ srcIdx' = [srcIdx EXCEPT ![i] = r.srcIdx]
               /\ sourceState' = [sourceState EXCEPT ![i] =
                    [k \in DOMAIN @ |->
                       IF k = srcIdx[i] THEN "invalid"
                       ELSE IF k = r.srcIdx /\ r.managed THEN "pending" ELSE @[k]]]
               /\ UNCHANGED <<requests>>
       ELSE \* img.src = srcToLoad
            /\ pc' = [pc EXCEPT ![i] = "loading"]
            /\ requests' = [requests EXCEPT ![i][srcIdx[i]] = @ + 1]
            /\ UNCHANGED <<activeLoads, queue, srcIdx, currentSrc, isLoading, error,
                           delay, waited, sourceState, held>>
  /\ UNCHANGED <<Props, attempt, retryCount>>

\* img.onload
ImgOnload(i, rs) ==
  /\ pc[i] = "loading"
  /\ CanLoadOk(Url(i))
  /\ LET f == finishLoad(Mgr)
         r == [pc |-> "done", activeLoads |-> f.activeLoads, queue |-> f.queue,
               currentSrc |-> Url(i), isLoading |-> FALSE, error |-> NoError]
     IN Apply(i, r, f.next, rs) /\ Held(i, TRUE, r, f.next)
  /\ sourceState' = [sourceState EXCEPT ![i][srcIdx[i]] = "loaded"]
  /\ UNCHANGED <<Props, srcIdx, attempt, retryCount, requests>>

\* img.onerror
ImgOnerror(i, rnd, rs) ==
  /\ pc[i] = "loading"
  /\ CanLoadFail(Url(i))
  /\ LET f == finishLoad(Mgr) IN
     IF attempt[i] < maxRetries[i]
       THEN \* setTimeout(retry, delay)
            /\ activeLoads' = f.activeLoads
            /\ queue' = f.queue
            /\ pc' = [j \in Images |-> IF j = i THEN "backoff"
                                       ELSE IF j = f.next THEN "stagger" ELSE pc[j]]
            /\ delay' = [j \in Images |-> IF j = i THEN BackoffDelay(attempt[i], rnd)
                                          ELSE IF j = f.next THEN StaggerDelay(rs)
                                          ELSE delay[j]]
            /\ waited' = [j \in Images |-> IF j = i \/ j = f.next THEN 0 ELSE waited[j]]
            /\ Held(i, TRUE, [pc |-> "backoff"], f.next)
            /\ UNCHANGED <<srcIdx, attempt, currentSrc, isLoading, error, sourceState>>
       ELSE \* setError, reject
            LET r == loadWithFallbacksCatch(i, f, [St(i) EXCEPT !.error = ErrLoad])
            IN /\ Apply(i, r, f.next, rs)
               /\ Held(i, TRUE, r, f.next)
               /\ srcIdx' = [srcIdx EXCEPT ![i] = r.srcIdx]
               /\ attempt' = [attempt EXCEPT ![i] = 0]
               /\ sourceState' = [sourceState EXCEPT ![i] =
                    [k \in DOMAIN @ |->
                       IF k = srcIdx[i] THEN "exhausted"
                       ELSE IF k = r.srcIdx /\ r.managed THEN "pending" ELSE @[k]]]
  /\ UNCHANGED <<Props, retryCount, requests>>

\* the backoff timer fires: setRetryCount, loadImage(srcToLoad, attempt + 1)
RetryFire(i) ==
  /\ pc[i] = "backoff"
  /\ waited[i] >= delay[i]
  /\ retryCount' = [retryCount EXCEPT ![i] = @ + 1]
  /\ attempt' = [attempt EXCEPT ![i] = @ + 1]
  /\ LET r == loadImage(i, attempt[i] + 1, Mgr, St(i)) IN
       Apply(i, r, 0, 0) /\ Held(i, FALSE, r, 0)
  /\ UNCHANGED <<Props, srcIdx, requests, sourceState>>

\* time passes until the next pending timer is due
Pending == {i \in Images : pc[i] \in {"stagger", "backoff"}}

Remaining(i) == delay[i] - waited[i]

Tick ==
  /\ Pending # {}
  /\ \A i \in Pending : Remaining(i) > 0
  /\ \E i \in Pending :
       /\ \A j \in Pending : Remaining(i) <= Remaining(j)
       /\ waited' = [j \in Images |-> IF j \in Pending THEN waited[j] + Remaining(i)
                                      ELSE waited[j]]
  /\ UNCHANGED <<Props, activeLoads, queue, pc, srcIdx, attempt, currentSrc, isLoading,
                 error, retryCount, delay, requests, sourceState, held>>

ImgNext ==
  \/ \E i \in Images : Mount(i)
  \/ \E i \in Images : StaggerFire(i)
  \/ \E i \in Images, ok \in BOOLEAN, rs \in rng : ValidationDone(i, ok, rs)
  \/ \E i \in Images, rs \in rng : ImgOnload(i, rs)
  \/ \E i \in Images, rnd \in rng, rs \in rng : ImgOnerror(i, rnd, rs)
  \/ \E i \in Images : RetryFire(i)
  \/ Tick

\* a page with a single SafeImage: nothing is ever queued, so no stagger
\* timer is ever set
SingleNext ==
  \/ \E i \in Images : Mount(i)
  \/ \E i \in Images, ok \in BOOLEAN, rs \in rng : ValidationDone(i, ok, rs)
  \/ \E i \in Images, rs \in rng : ImgOnload(i, rs)
  \/ \E i \in Images, rnd \in rng, rs \in rng : ImgOnerror(i, rnd, rs)
  \/ \E i \in Images : RetryFire(i)
  \/ Tick

\* the state of every instance after construction (useState initial values)
ImgInitState ==
  /\ activeLoads = 0
  /\ queue = <<>>
  /\ pc = [i \in Images |-> "idle"]
  /\ srcIdx = [i \in Images |-> 1]
  /\ attempt = [i \in Images |-> 0]
  /\ currentSrc = [i \in Images |-> ""]
  /\ isLoading = [i \in Images |-> TRUE]
  /\ error = [i \in Images |-> NoError]
  /\ retryCount = [i \in Images |-> 0]
  /\ delay = [i \in Images |-> 0]
  /\ waited = [i \in Images |-> 0]
  /\ requests = [i \in Images |-> [k \in 1..MaxSources |-> 0]]
  /\ sourceState = [i \in Images |-> [k \in 1..MaxSources |-> "untried"]]
  /\ held = [i \in Images |-> 0]

\* a demo-mode page of instances without demoSkipIndex that load storage
\* URLs; Math.random() is the same value throughout a run
MgrInit ==
  /\ \E r \in RandomPermille : rng = {r}
  /\ demoMode = TRUE
  /\ localAssetsPresent = TRUE
  /\ src = [i \in Images |-> SupabaseUrl]
  /\ fallback = [i \in Images |-> NoFallback]
  /\ demoSkipIndex = [i \in Images |-> NoIndex]
  /\ maxRetries = [i \in Images |-> MgrRetries]
  /\ lowBandwidth = [i \in Images |-> FALSE]
  /\ ImgInitState

\* one instance with any props (the others have no src and never load)
ImgInit ==
  /\ rng = RandomPermille
  /\ demoMode \in BOOLEAN
  /\ localAssetsPresent \in BOOLEAN
  /\ \E s \in SrcSamples : src = [i \in Images |-> IF i = 1 THEN s ELSE ""]
  /\ \E f \in {NoFallback, CustomFallbackUrl} : fallback = [i \in Images |-> f]
  /\ \E d \in {NoIndex, DemoSkipThreshold, DemoSkipThreshold + 1} :
       demoSkipIndex = [i \in Images |-> d]
  /\ maxRetries = [i \in Images |-> DefaultMaxRetries]
  /\ \E l \in BOOLEAN : lowBandwidth = [i \in Images |-> l]
  /\ ImgInitState

\* no SafeImage on the page
NoImages ==
  /\ rng = {0}
  /\ demoMode = FALSE
  /\ localAssetsPresent = TRUE
  /\ src = [i \in Images |-> ""]
  /\ fallback = [i \in Images |-> NoFallback]
  /\ demoSkipIndex = [i \in Images |-> NoIndex]
  /\ maxRetries = [i \in Images |-> DefaultMaxRetries]
  /\ lowBandwidth = [i \in Images |-> FALSE]
  /\ ImgInitState

(***************************************************************************)
(* The database: profiles.rewards, posts, notifications and the            *)
(* award_points_on_post trigger.  rewards is DECIMAL(10,2), kept here in   *)
(* hundredths of a point.                                                  *)
(***************************************************************************)
\* number of rows ever inserted into posts
MaxPosts == 3
\* rewards a profile may hold before the first post (hundredths)
MaxInitialRewards == 1

Profiles == {"alice", "bob"}
\* signed-in users; mallory has no row in profiles
AuthUsers == Profiles \cup {"mallory"}
NoUser == "anon"

SparkPoints == 100
PostPoints == 50


\* award_post_points: points := 1.0 for a spark, 0.5 for a post
Points(new) == IF new.is_spark THEN SparkPoints ELSE PostPoints

\* the UPDATE without its WHERE clause
AwardRewardsEveryone(rw, new) == [u \in DOMAIN rw |-> rw[u] + Points(new)]

\* UPDATE profiles SET rewards = rewards + points WHERE user_id = new.user_id
AwardRewards(rw, new) ==
  [u \in DOMAIN rw |-> IF u = new.user_id THEN rw[u] + Points(new) ELSE rw[u]]

\* the notification without its post_id
RewardNotificationNoPost(new) ==
  [user_id |-> new.user_id, type |-> "reward", post_id |-> 0]

\* INSERT INTO notifications (user_id, type, ..., post_id)
RewardNotification(new) ==
  [user_id |-> new.user_id, type |-> "reward", post_id |-> new.id]

\* policy "Users can create their own posts": WITH CHECK (auth.uid() = user_id)
PostsInsertCheck(uid, row) == uid = row.user_id

\* policy "Users can delete their own posts": USING (auth.uid() = user_id)
PostsDeleteUsing(uid, row) == uid = row.user_id

\* INSERT INTO posts by a client signed in as uid, with the AFTER INSERT
\* trigger award_points_on_post in the same transaction
InsertPost(uid, user_id, is_spark) ==
  /\ nextPostId <= MaxPosts
  /\ LET new == [id |-> nextPostId, user_id |-> user_id, is_spark |-> is_spark] IN
     IF ~PostsInsertCheck(uid, new)
       THEN /\ dbResult' = "rls_violation"
            /\ UNCHANGED <<rewards, posts, notifications, nextPostId, toNotify,
                           sparkInserts, postInserts>>
     ELSE IF user_id \notin Profiles
       THEN /\ dbResult' = "fk_violation"
            /\ UNCHANGED <<rewards, posts, notifications, nextPostId, toNotify,
                           sparkInserts, postInserts>>
     ELSE /\ posts' = posts \cup {new}
          /\ rewards' = AwardRewards(rewards, new)
          /\ notifications' = notifications (+) SetToBag({RewardNotification(new)})
          /\ nextPostId' = nextPostId + 1
          /\ toNotify' = toNotify \cup {new}
          /\ sparkInserts' = [sparkInserts EXCEPT ![user_id] = @ + (IF is_spark THEN 1 ELSE 0)]
          /\ postInserts' = [postInserts EXCEPT ![user_id] = @ + (IF is_spark THEN 0 ELSE 1)]
          /\ dbResult' = "inserted"
  /\ UNCHANGED <<rewards0, notifCascade, imgVars, storyVars, restVars>>

\* Composer.handlePublish after the insert returned: the 'post' notification
\* for user.id and newPost.id (its error is not looked at)
ComposerNotify(p) ==
  /\ p \in toNotify
  /\ toNotify' = toNotify \ {p}
  /\ IF notifCascade /\ p \notin posts
       THEN /\ dbResult' = "fk_violation"
            /\ UNCHANGED notifications
       ELSE /\ notifications' = notifications (+)
                 SetToBag({[user_id |-> p.user_id, type |-> "post", post_id |-> p.id]})
            /\ dbResult' = "inserted"
  /\ UNCHANGED <<rewards, rewards0, posts, nextPostId, notifCascade, sparkInserts,
                 postInserts, imgVars, storyVars, restVars>>

\* DELETE FROM posts WHERE id = row.id by a client signed in as uid
DeletePost(uid, row) ==
  /\ row \in posts
  /\ IF PostsDeleteUsing(uid, row)
       THEN /\ posts' = posts \ {row}
            /\ notifications' =
                 IF notifCascade
                   THEN [n \in {m \in DOMAIN notifications : m.post_id # row.id} |->
                           notifications[n]]
                   ELSE notifications
            /\ dbResult' = "deleted"
       ELSE /\ dbResult' = "no_rows"
            /\ UNCHANGED <<posts, notifications>>
  /\ UNCHANGED <<rewards, rewards0, nextPostId, notifCascade, toNotify, sparkInserts,
                 postInserts, imgVars, storyVars, restVars>>

PostsNext ==
  \/ \E uid \in AuthUsers, user_id \in AuthUsers, is_spark \in BOOLEAN :
       InsertPost(uid, user_id, is_spark)
  \/ \E p \in toNotify : ComposerNotify(p)
  \/ \E uid \in AuthUsers, row \in posts : DeletePost(uid, row)

PostsInit ==
  /\ rewards0 \in [Profiles -> {k * 25 : k \in 0..MaxInitialRewards}]
  /\ rewards = rewards0
  /\ posts = {}
  /\ notifications = EmptyBag
  /\ nextPostId = 1
  /\ notifCascade \in BOOLEAN
  /\ toNotify = {}
  /\ sparkInserts = [u \in Profiles |-> 0]
  /\ postInserts = [u \in Profiles |-> 0]
  /\ dbResult = "none"

NoPosts ==
  /\ rewards0 = [u \in Profiles |-> 0]
  /\ rewards = rewards0
  /\ posts = {}
  /\ notifications = EmptyBag
  /\ nextPostId = 1
  /\ notifCascade = FALSE
  /\ toNotify = {}
  /\ sparkInserts = [u \in Profiles |-> 0]
  /\ postInserts = [u \in Profiles |-> 0]
  /\ dbResult = "none"

(***************************************************************************)
(* Stories: the stories table with its column defaults and policies,       *)
(* StoryUploadSheet.handlePublish, StoriesBar.loadStories and              *)
(* StoryViewer.handleDelete.  Time is the server's now() in hours.         *)
(***************************************************************************)
\* rows ever inserted into stories
MaxStories == 1
\* the server clock stops here
MaxClock == 26
\* the client's clock is off by at most this many hours
MaxSkew == 2

\* DEFAULT (now() + INTERVAL '24 hours')
StoryTTL == 24

ClockSkews == {0 - MaxSkew, 0, MaxSkew}


\* a SELECT policy that shows every row
StoriesSelectUsingTrue(row, t) == TRUE

\* policy "Stories are viewable by everyone": USING (expires_at > now())
StoriesSelectUsing(row, t) == row.expires_at > t

\* policy "Users can create their own stories": WITH CHECK (auth.uid() = user_id)
StoriesInsertCheck(uid, row) == uid = row.user_id

\* policy "Users can delete their own stories": USING (auth.uid() = user_id)
StoriesDeleteUsing(uid, row) == uid = row.user_id

\* row level security is enabled and no policy is defined FOR UPDATE
StoriesUpdateUsing(uid, row) == FALSE

\* the row INSERT stores when created_at and expires_at are not given
StoryDefaults(id, user_id, t) ==
  [id |-> id, user_id |-> user_id, created_at |-> t, expires_at |-> t + StoryTTL]

\* StoryUploadSheet.handlePublish: insert {user_id: user.id, content_url, ...}
PublishStory(uid) ==
  /\ nextStoryId <= MaxStories
  /\ LET row == StoryDefaults(nextStoryId, uid, now) IN
     IF uid = NoUser
       THEN /\ storyResult' = "not_authenticated"
            /\ UNCHANGED <<stories, nextStoryId>>
     ELSE IF ~StoriesInsertCheck(uid, row)
       THEN /\ storyResult' = "rls_violation"
            /\ UNCHANGED <<stories, nextStoryId>>
     ELSE IF uid \notin Profiles
       THEN /\ storyResult' = "fk_violation"
            /\ UNCHANGED <<stories, nextStoryId>>
     ELSE /\ stories' = stories \cup {row}
          /\ nextStoryId' = nextStoryId + 1
          /\ storyResult' = "inserted"
  /\ UNCHANGED <<now, storyGroups, justLoaded, imgVars, dbVars, restVars>>

\* StoriesBar.loadStories with the client's clock off by skew:
\* select ... .gt("expires_at", new Date()), under the SELECT policy
loadStories(rows, serverNow, clientNow) ==
  {r \in rows : StoriesSelectUsing(r, serverNow) /\ r.expires_at > clientNow}

LoadStories(skew) ==
  /\ storyGroups' = loadStories(stories, now, now + skew)
  /\ justLoaded' = TRUE
  /\ storyResult' = "selected"
  /\ UNCHANGED <<now, stories, nextStoryId, imgVars, dbVars, restVars>>

\* StoryViewer.handleDelete: delete().eq("id", currentStory.id); the row
\* has to pass the SELECT policy as well to be found
DeleteStory(uid, row) ==
  /\ row \in stories
  /\ IF StoriesDeleteUsing(uid, row) /\ StoriesSelectUsing(row, now)
       THEN /\ stories' = stories \ {row}
            /\ storyResult' = "deleted"
       ELSE /\ storyResult' = "no_rows"
            /\ UNCHANGED stories
  /\ UNCHANGED <<now, nextStoryId, storyGroups, justLoaded, imgVars, dbVars, restVars>>

\* an UPDATE of expires_at sent by a client signed in as uid
UpdateStoryExpiry(uid, row, t) ==
  /\ row \in stories
  /\ IF StoriesUpdateUsing(uid, row)
       THEN /\ stories' = (stories \ {row}) \cup {[row EXCEPT !.expires_at = t]}
            /\ storyResult' = "updated"
       ELSE /\ storyResult' = "no_rows_updated"
            /\ UNCHANGED stories
  /\ UNCHANGED <<now, nextStoryId, storyGroups, justLoaded, imgVars, dbVars, restVars>>

\* an hour passes
StoryTick ==
  /\ now < MaxClock
  /\ now' = now + 1
  /\ justLoaded' = FALSE
  /\ UNCHANGED <<stories, nextStoryId, storyGroups, storyResult, imgVars, dbVars, restVars>>

StoriesInit ==
  /\ now = 0
  /\ stories = {}
  /\ nextStoryId = 1
  /\ storyGroups = {}
  /\ justLoaded = FALSE
  /\ storyResult = "none"

(***************************************************************************)
(* createSafeImageFallback(img, fallbackSrc): the error listener it        *)
(* attaches to a plain <img>, the retry timers it sets and the cleanup it  *)
(* returns.  Time is in seconds.                                           *)
(***************************************************************************)
\* <img> elements the utility is attached to
NumElements == 2
\* loads of the fallback URL after which the run is cut off
MaxFallbackLoads == 3

Elements == 1..NumElements

\* const maxAttempts = 3
maxAttempts == 3

\* Math.pow(2, attempts) * 1000 ms
RetryTimeout(a) == 2 ^ a

\* handleError for element e with the counter at a (already incremented)
handleError(e, a) ==
  IF a < maxAttempts
    THEN [imgState |-> "waiting", imgSrc |-> imgSrc[e], retryDelay |-> RetryTimeout(a),
          fallbackLoads |-> fallbackLoads[e]]
    ELSE IF fallbackSrc[e] # ""
      THEN \* img.src = fallbackSrc
           [imgState |-> "loading", imgSrc |-> "fallback", retryDelay |-> 0,
            fallbackLoads |-> fallbackLoads[e] + 1]
      ELSE [imgState |-> "broken", imgSrc |-> imgSrc[e], retryDelay |-> 0,
            fallbackLoads |-> fallbackLoads[e]]

\* the element's error event
ImgError(e) ==
  /\ imgState[e] = "loading"
  /\ fallbackLoads[e] < MaxFallbackLoads
  /\ IF listening[e]
       THEN LET h == handleError(e, attempts[e] + 1) IN
            /\ attempts' = [attempts EXCEPT ![e] = @ + 1]
            /\ imgState' = [imgState EXCEPT ![e] = h.imgState]
            /\ imgSrc' = [imgSrc EXCEPT ![e] = h.imgSrc]
            /\ retryDelay' = [retryDelay EXCEPT ![e] = h.retryDelay]
            /\ fallbackLoads' = [fallbackLoads EXCEPT ![e] = h.fallbackLoads]
       ELSE /\ imgState' = [imgState EXCEPT ![e] = "broken"]
            /\ UNCHANGED <<attempts, imgSrc, retryDelay, fallbackLoads>>
  /\ retryWaited' = [retryWaited EXCEPT ![e] = 0]
  /\ UNCHANGED <<fallbackSrc, listening, originalLoads, notFb>>

\* the element's load event
ImgLoad(e) ==
  /\ imgState[e] = "loading"
  /\ imgState' = [imgState EXCEPT ![e] = "shown"]
  /\ UNCHANGED <<fallbackSrc, attempts, listening, imgSrc, retryDelay, retryWaited,
                 originalLoads, fallbackLoads, notFb>>

\* the retry timer fires: img.src = img.src
RetrySameUrl(e) ==
  /\ imgState[e] = "waiting"
  /\ retryWaited[e] >= retryDelay[e]
  /\ imgState' = [imgState EXCEPT ![e] = "loading"]
  /\ originalLoads' = [originalLoads EXCEPT ![e] = @ + (IF imgSrc[e] = "original" THEN 1 ELSE 0)]
  /\ fallbackLoads' = [fallbackLoads EXCEPT ![e] = @ + (IF imgSrc[e] = "fallback" THEN 1 ELSE 0)]
  /\ retryDelay' = [retryDelay EXCEPT ![e] = 0]
  /\ retryWaited' = [retryWaited EXCEPT ![e] = 0]
  /\ UNCHANGED <<fallbackSrc, attempts, listening, imgSrc, notFb>>

\* the returned cleanup: img.removeEventListener('error', handleError)
Cleanup(e) ==
  /\ listening[e]
  /\ listening' = [listening EXCEPT ![e] = FALSE]
  /\ UNCHANGED <<fallbackSrc, attempts, imgSrc, imgState, retryDelay, retryWaited,
                 originalLoads, fallbackLoads, notFb>>

\* a second passes; a due timer fires first
Waiting == {e \in Elements : imgState[e] = "waiting"}

SecondPasses ==
  /\ Waiting # {}
  /\ \A e \in Waiting : retryWaited[e] < retryDelay[e]
  /\ retryWaited' = [e \in Elements |-> IF e \in Waiting THEN retryWaited[e] + 1
                                        ELSE retryWaited[e]]
  /\ UNCHANGED <<fallbackSrc, attempts, listening, imgSrc, imgState, retryDelay,
                 originalLoads, fallbackLoads, notFb>>

FallbackNext ==
  \/ \E e \in Elements : ImgError(e)
  \/ \E e \in Elements : ImgLoad(e)
  \/ \E e \in Elements : RetrySameUrl(e)
  \/ \E e \in Elements : Cleanup(e)
  \/ SecondPasses

\* createSafeImageFallback was just called on elements loading their URL
FallbackInit ==
  /\ fallbackSrc \in [Elements -> {"", FALLBACK_IMAGE}]
  /\ attempts = [e \in Elements |-> 0]
  /\ listening = [e \in Elements |-> TRUE]
  /\ imgSrc = [e \in Elements |-> "original"]
  /\ imgState = [e \in Elements |-> "loading"]
  /\ retryDelay = [e \in Elements |-> 0]
  /\ retryWaited = [e \in Elements |-> 0]
  /\ originalLoads = [e \in Elements |-> 1]
  /\ fallbackLoads = [e \in Elements |-> 0]

\* the utility is not used
NoElements ==
  /\ fallbackSrc = [e \in Elements |-> ""]
  /\ attempts = [e \in Elements |-> 0]
  /\ listening = [e \in Elements |-> FALSE]
  /\ imgSrc = [e \in Elements |-> "original"]
  /\ imgState = [e \in Elements |-> "shown"]
  /\ retryDelay = [e \in Elements |-> 0]
  /\ retryWaited = [e \in Elements |-> 0]
  /\ originalLoads = [e \in Elements |-> 1]
  /\ fallbackLoads = [e \in Elements |-> 0]

(***************************************************************************)
(* Row level security, UNIQUE constraints and foreign keys of stories,     *)
(* story_likes, story_comments, reposts, pinned_posts and comment_likes,   *)
(* under statements sent by any client.                                    *)
(***************************************************************************)
\* rows ever inserted
MaxRows == 3
\* posts and comments a row can point at
MaxRefs == 2

Tables ==
  {"stories", "story_likes", "story_comments", "reposts", "pinned_posts", "comment_likes"}

\* tables whose story_id REFERENCES public.stories(id) ON DELETE CASCADE
StoryChildren == {"story_likes", "story_comments"}

\* tables with UNIQUE(user_id, post_id), UNIQUE(user_id, comment_id) or
\* UNIQUE(story_id, user_id)
UniqueTables == {"story_likes", "reposts", "pinned_posts", "comment_likes"}

\* FOR INSERT WITH CHECK (auth.uid() = user_id), the same in the six tables
InsertCheck(t, uid, row) ==
  IF t = "stories" THEN StoriesInsertCheck(uid, row) ELSE uid = row.user_id

\* a DELETE policy that lets every signed-in user through
DeleteUsingAnyone(t, uid, row) == uid # NoUser

\* FOR DELETE USING (auth.uid() = user_id), the same in the six tables
DeleteUsing(t, uid, row) ==
  IF t = "stories" THEN StoriesDeleteUsing(uid, row) ELSE uid = row.user_id

\* no table has a policy FOR UPDATE
UpdateUsing(t, uid, row) == FALSE

\* a table created without its UNIQUE constraint
UniqueViolationNever(t, rows, row) == FALSE

\* the UNIQUE constraint of t rejects row
UniqueViolation(t, rows, row) ==
  /\ t \in UniqueTables
  /\ \E r \in rows : r.user_id = row.user_id /\ r.ref = row.ref

\* the foreign key of t rejects row
ForeignKeyViolation(t, tbl, row) ==
  IF t \in StoryChildren
    THEN \A st \in tbl["stories"] : st.id # row.ref
    ELSE FALSE

\* what row may point at: nothing for a story, a story id for a story like
\* or comment, a post or comment id otherwise
RefOk(t, ref) ==
  IF t = "stories" THEN ref = 0
  ELSE IF t \in StoryChildren THEN ref \in 1..MaxRows
  ELSE ref \in 1..MaxRefs

\* the tables after DELETE removed row from t, with the cascade
DeleteCascade(tbl, t, row) ==
  [u \in Tables |->
     IF u = t THEN tbl[u] \ {row}
     ELSE IF t = "stories" /\ u \in StoryChildren
       THEN {r \in tbl[u] : r.ref # row.id}
     ELSE tbl[u]]

\* INSERT INTO t (user_id, ...) by a client signed in as uid
InsertRow(t, uid, user_id, ref) ==
  /\ nextRowId <= MaxRows
  /\ RefOk(t, ref)
  /\ actor' = uid
  /\ LET row == [id |-> nextRowId, user_id |-> user_id, ref |-> ref] IN
     IF ~InsertCheck(t, uid, row)
       THEN rlsResult' = "rls_violation" /\ UNCHANGED <<tables, nextRowId>>
     ELSE IF ForeignKeyViolation(t, tables, row)
       THEN rlsResult' = "fk_violation" /\ UNCHANGED <<tables, nextRowId>>
     ELSE IF UniqueViolation(t, tables[t], row)
       THEN rlsResult' = "unique_violation" /\ UNCHANGED <<tables, nextRowId>>
     ELSE /\ tables' = [tables EXCEPT ![t] = @ \cup {row}]
          /\ nextRowId' = nextRowId + 1
          /\ rlsResult' = "inserted"
  /\ cascaded' = {}
  /\ UNCHANGED <<notRls>>

\* DELETE FROM t WHERE id = row.id by a client signed in as uid
DeleteRow(t, uid, row) ==
  /\ row \in tables[t]
  /\ actor' = uid
  /\ IF DeleteUsing(t, uid, row)
       THEN /\ tables' = DeleteCascade(tables, t, row)
            /\ rlsResult' = "deleted"
            /\ cascaded' = UNION {tables[u] \ DeleteCascade(tables, t, row)[u] :
                                    u \in Tables \ {t}}
       ELSE rlsResult' = "no_rows" /\ UNCHANGED tables /\ cascaded' = {}
  /\ UNCHANGED <<nextRowId, notRls>>

\* UPDATE t SET user_id = ... WHERE id = row.id by a client signed in as uid
UpdateRow(t, uid, row, user_id) ==
  /\ row \in tables[t]
  /\ actor' = uid
  /\ IF UpdateUsing(t, uid, row)
       THEN /\ tables' = [tables EXCEPT ![t] = (@ \ {row}) \cup {[row EXCEPT !.user_id = user_id]}]
            /\ rlsResult' = "updated"
       ELSE rlsResult' = "no_rows_updated" /\ UNCHANGED tables
  /\ cascaded' = {}
  /\ UNCHANGED <<nextRowId, notRls>>

\* the rows of the six tables
AllRows == UNION {tables[t] : t \in Tables}

RlsNext ==
  \/ \E t \in Tables, uid \in Profiles \cup {NoUser}, user_id \in Profiles, ref \in 0..MaxRows :
       InsertRow(t, uid, user_id, ref)
  \/ \E t \in Tables, uid \in Profiles \cup {NoUser}, row \in AllRows :
       DeleteRow(t, uid, row)
  \/ \E t \in Tables, uid \in Profiles, user_id \in Profiles, row \in AllRows :
       UpdateRow(t, uid, row, user_id)

RlsInit ==
  /\ tables = [t \in Tables |-> {}]
  /\ nextRowId = 1
  /\ actor = NoUser
  /\ rlsResult = "none"
  /\ cascaded = {}

(***************************************************************************)
(* Composer (pages/Home.tsx): the type tabs, the caption, the file inputs, *)
(* the Remove button and handlePublish with its awaits.                    *)
(***************************************************************************)
\* posts after which no new Composer is opened
MaxPublished == 1

\* file sizes in MB: 10 * 1024 * 1024 and 50 * 1024 * 1024 bytes
ImageMaxMB == 10
VideoMaxMB == 50

NoFile == [name |-> "", type |-> "", size |-> 0]

Files ==
  {[name |-> "a.png", type |-> "image/png", size |-> 5],
   [name |-> "b.png", type |-> "image/png", size |-> 20],
   [name |-> "c.mp4", type |-> "video/mp4", size |-> 20]}

Captions == {"", "  ", "hello"}

\* caption.trim()
Trim(c) == IF c = "  " THEN "" ELSE c

\* file.type.startsWith(prefix)
StartsWith(type, prefix) ==
  CASE prefix = "video/" -> type \in {"video/mp4"}
    [] prefix = "image/" -> type \in {"image/png"}
    [] OTHER -> FALSE

\* handleFileSelect: the toast that turns file f down for the type shown
FileRejected(type, f) ==
  IF type = "spark" /\ ~StartsWith(f.type, "video/") THEN "Invalid file"
  ELSE IF type = "post" /\ ~StartsWith(f.type, "image/") THEN "Invalid file"
  ELSE IF f.size > (IF type = "spark" THEN VideoMaxMB ELSE ImageMaxMB)
    THEN "File too large"
  ELSE "none"

\* a publish guard that forgets the video a spark needs
PublishRejectedNoVideoCheck(type, c, f) ==
  IF Trim(c) = "" /\ f = NoFile THEN "Empty content" ELSE "none"

\* handlePublish: the toast of the check that returns before setUploading
PublishRejected(type, c, f) ==
  IF Trim(c) = "" /\ f = NoFile THEN "Empty content"
  ELSE IF type = "spark" /\ f = NoFile THEN "Video required"
  ELSE "none"

\* the row handlePublish inserts
ComposerRow(id, user, type) ==
  [id |-> id, user_id |-> user, is_spark |-> (type = "spark")]

\* content_type: postType === "spark" ? "video" : (fileUrl ? "image" : "text")
ContentType(type, f) ==
  IF type = "spark" THEN "video" ELSE IF f # NoFile THEN "image" ELSE "text"

\* Tabs onValueChange: setPostType(v)
SetPostType(v) ==
  /\ composerPc # "left"
  /\ v # postType
  /\ postType' = v
  /\ UNCHANGED <<session, caption, selectedFile, previewUrl, uploading, composerPc,
                 pubType, uploads, postFiles, composerToast, dbVars, notComp>>

\* Textarea onChange (disabled while uploading)
SetCaption(c) ==
  /\ composerPc # "left"
  /\ ~uploading
  /\ c # caption
  /\ caption' = c
  /\ UNCHANGED <<session, postType, selectedFile, previewUrl, uploading, composerPc,
                 pubType, uploads, postFiles, composerToast, dbVars, notComp>>

\* handleFileSelect (the inputs are shown while there is no preview and
\* disabled while uploading)
HandleFileSelect(f) ==
  /\ composerPc # "left"
  /\ ~uploading
  /\ ~previewUrl
  /\ IF FileRejected(postType, f) # "none"
       THEN composerToast' = FileRejected(postType, f) /\ UNCHANGED selectedFile
       ELSE selectedFile' = f /\ UNCHANGED composerToast
  /\ UNCHANGED <<session, postType, caption, previewUrl, uploading, composerPc,
                 pubType, uploads, postFiles, dbVars, notComp>>

\* reader.onloadend: setPreviewUrl
ReaderLoadEnd ==
  /\ composerPc # "left"
  /\ selectedFile # NoFile
  /\ ~previewUrl
  /\ previewUrl' = TRUE
  /\ UNCHANGED <<session, postType, caption, selectedFile, uploading, composerPc,
                 pubType, uploads, postFiles, composerToast, dbVars, notComp>>

\* the Remove button of the preview (disabled while uploading)
RemoveFile ==
  /\ composerPc # "left"
  /\ ~uploading
  /\ previewUrl
  /\ selectedFile' = NoFile
  /\ previewUrl' = FALSE
  /\ UNCHANGED <<session, postType, caption, uploading, composerPc,
                 pubType, uploads, postFiles, composerToast, dbVars, notComp>>

\* handlePublish up to its first await (the buttons are disabled while
\* uploading)
HandlePublish ==
  /\ composerPc = "idle"
  /\ ~uploading
  /\ IF PublishRejected(postType, caption, selectedFile) # "none"
       THEN /\ composerToast' = PublishRejected(postType, caption, selectedFile)
            /\ UNCHANGED <<uploading, composerPc, pubType>>
       ELSE /\ uploading' = TRUE
            /\ composerPc' = "getUser"
            /\ pubType' = postType
            /\ UNCHANGED composerToast
  /\ UNCHANGED <<session, postType, caption, selectedFile, previewUrl, uploads,
                 postFiles, dbVars, notComp>>

\* await supabase.auth.getUser() returned
GetUserDone ==
  /\ composerPc = "getUser"
  /\ IF session = NoUser
       THEN \* toast, navigate("/"), finally
            /\ composerToast' = "Not authenticated"
            /\ composerPc' = "left"
            /\ uploading' = FALSE
       ELSE /\ composerPc' = IF selectedFile # NoFile THEN "upload" ELSE "insert"
            /\ UNCHANGED <<composerToast, uploading>>
  /\ UNCHANGED <<session, postType, caption, selectedFile, previewUrl, pubType,
                 uploads, postFiles, dbVars, notComp>>

\* await supabase.storage.from(bucket).upload(fileName, selectedFile) returned
UploadDone(ok) ==
  /\ composerPc = "upload"
  /\ IF ok
       THEN /\ uploads' = uploads \cup
                 {[bucket |-> IF pubType = "spark" THEN "sparks" ELSE "posts",
                   type |-> selectedFile.type]}
            /\ composerPc' = "insert"
            /\ UNCHANGED <<composerToast, uploading>>
       ELSE \* throw uploadError: catch, finally
            /\ composerToast' = "Error"
            /\ composerPc' = "idle"
            /\ uploading' = FALSE
            /\ UNCHANGED uploads
  /\ UNCHANGED <<session, postType, caption, selectedFile, previewUrl, pubType,
                 postFiles, dbVars, notComp>>

\* await supabase.from("posts").insert(...) returned; an accepted insert
\* runs the trigger award_points_on_post
InsertDone(ok) ==
  /\ composerPc = "insert"
  /\ LET new == ComposerRow(nextPostId, session, pubType) IN
     IF ok /\ PostsInsertCheck(session, new) /\ nextPostId <= MaxPosts
       THEN /\ posts' = posts \cup {new}
            /\ rewards' = AwardRewards(rewards, new)
            /\ notifications' = notifications (+) SetToBag({RewardNotification(new)})
            /\ nextPostId' = nextPostId + 1
            /\ sparkInserts' = [sparkInserts EXCEPT ![session] = @ + (IF new.is_spark THEN 1 ELSE 0)]
            /\ postInserts' = [postInserts EXCEPT ![session] = @ + (IF new.is_spark THEN 0 ELSE 1)]
            /\ dbResult' = "inserted"
            /\ postFiles' = postFiles \cup
                 {[post_id |-> new.id,
                   content_type |-> ContentType(pubType, selectedFile),
                   file_type |-> selectedFile.type]}
            /\ composerPc' = "notify"
            /\ UNCHANGED <<composerToast, uploading>>
       ELSE \* throw postError: catch, finally
            /\ dbResult' = "error"
            /\ composerToast' = "Error"
            /\ composerPc' = "idle"
            /\ uploading' = FALSE
            /\ UNCHANGED <<posts, rewards, notifications, nextPostId, sparkInserts,
                           postInserts, postFiles>>
  /\ UNCHANGED <<session, postType, caption, selectedFile, previewUrl, pubType,
                 uploads, rewards0, notifCascade, toNotify, notComp>>

\* await supabase.from('notifications').insert(...) returned (its error is
\* not looked at); toast, navigate, finally
NotifyDone(ok) ==
  /\ composerPc = "notify"
  /\ notifications' =
       IF ok THEN notifications (+)
                    SetToBag({[user_id |-> session, type |-> "post",
                               post_id |-> nextPostId - 1]})
             ELSE notifications
  /\ dbResult' = IF ok THEN "inserted" ELSE "error"
  /\ composerToast' = "Success"
  /\ composerPc' = "left"
  /\ uploading' = FALSE
  /\ UNCHANGED <<session, postType, caption, selectedFile, previewUrl, pubType,
                 uploads, postFiles, rewards, rewards0, posts, nextPostId,
                 notifCascade, toNotify, sparkInserts, postInserts, notComp>>

\* the user comes back to /composer?type=...: a new Composer
OpenComposer(type) ==
  /\ composerPc = "left"
  /\ nextPostId <= MaxPublished
  /\ postType' = type
  /\ caption' = ""
  /\ selectedFile' = NoFile
  /\ previewUrl' = FALSE
  /\ uploading' = FALSE
  /\ composerPc' = "idle"
  /\ composerToast' = "none"
  /\ UNCHANGED <<session, pubType, uploads, postFiles, dbVars, notComp>>

ComposerNext ==
  \/ \E v \in {"post", "spark"} : SetPostType(v)
  \/ \E c \in Captions : SetCaption(c)
  \/ \E f \in Files : HandleFileSelect(f)
  \/ ReaderLoadEnd
  \/ RemoveFile
  \/ HandlePublish
  \/ GetUserDone
  \/ \E ok \in BOOLEAN : UploadDone(ok)
  \/ \E ok \in BOOLEAN : InsertDone(ok)
  \/ \E ok \in BOOLEAN : NotifyDone(ok)
  \/ \E type \in {"post", "spark"} : OpenComposer(type)

\* const initialType = searchParams.get("type") === "spark" ? "spark" : "post"
ComposerInit ==
  /\ session \in {NoUser, "alice"}
  /\ postType \in {"post", "spark"}
  /\ caption = ""
  /\ selectedFile = NoFile
  /\ previewUrl = FALSE
  /\ uploading = FALSE
  /\ composerPc = "idle"
  /\ pubType = "post"
  /\ uploads = {}
  /\ postFiles = {}
  /\ composerToast = "none"

\* no Composer is open
NoComposer ==
  /\ session = NoUser
  /\ postType = "post"
  /\ caption = ""
  /\ selectedFile = NoFile
  /\ previewUrl = FALSE
  /\ uploading = FALSE
  /\ composerPc = "left"
  /\ pubType = "post"
  /\ uploads = {}
  /\ postFiles = {}
  /\ composerToast = "none"

(***************************************************************************)
(* FeedCard (components/feed/FeedCard.tsx) and StoryViewer                 *)
(* (components/stories/StoryUploadSheet.tsx): the like and pin handlers    *)
(* with their awaits, and the loaders that refresh their state.  A request *)
(* to the backend is answered "ok", "rejected" (the promise resolves with  *)
(* an error, as for the calls whose error the same files test with         *)
(* `if (error) throw error`) or "thrown" (the await throws).               *)
(***************************************************************************)
\* clicks on the like button of the card
MaxTaps == 2

Outcomes == {"ok", "rejected", "thrown"}

\* post.authorId of the card
PostAuthor == "alice"

\* variant: "destructive"
Destructive(title) == title \in {"Not authenticated", "Error"}

\* UNIQUE(user_id, post_id) of pinned_posts, UNIQUE(story_id, user_id) of
\* story_likes: an insert of a pair that is there is not accepted
InsertAnswers(rowThere) == IF rowThere THEN Outcomes \ {"ok"} ELSE Outcomes

\* catch (error) { toast({ title: "Error", ..., variant: "destructive" }) }
LikeToast(outcome) == IF outcome = "thrown" THEN "Error" ELSE "none"

\* onClick={handleLike}: up to the await of supabase.auth.getUser()
HandleLike ==
  /\ likePc = "idle"
  /\ likeTaps < MaxTaps
  /\ likePc' = "getUser"
  /\ likeSaw' = isLiked
  /\ likeTaps' = likeTaps + 1
  /\ toastShown' = "none"
  /\ rejected' = "none"
  /\ UNCHANGED <<viewer, likes, likeNotifs, likesCreated, pinnedRow, storyLikeRow,
                 isLiked, likesCount, isPinned, pinning, currentUser, liked,
                 storyLikesCount, pinPc, pinSaw, storyPc, storySaw, notFeed>>

\* if (!user) { toast(...); return; }
LikeGetUserDone ==
  /\ likePc = "getUser"
  /\ likePc' = IF viewer = NoUser THEN "idle" ELSE "write"
  /\ toastShown' = IF viewer = NoUser THEN "Not authenticated" ELSE "none"
  /\ rejected' = "none"
  /\ UNCHANGED <<viewer, likes, likeNotifs, likesCreated, pinnedRow, storyLikeRow,
                 isLiked, likesCount, isPinned, pinning, currentUser, liked,
                 storyLikesCount, likeSaw, pinPc, pinSaw, storyPc, storySaw,
                 likeTaps, notFeed>>

\* the delete from likes, or the insert into likes and what follows it
LikeWriteDone(outcome) ==
  /\ likePc = "write"
  /\ IF likeSaw
       THEN /\ likes' = IF outcome = "ok" THEN 0 ELSE likes
            /\ likesCreated' = likesCreated
            /\ likePc' = "idle"
       ELSE /\ likes' = IF outcome = "ok" THEN likes + 1 ELSE likes
            /\ likesCreated' = IF outcome = "ok" THEN likesCreated + 1 ELSE likesCreated
            /\ likePc' = IF outcome # "thrown" /\ viewer # PostAuthor
                           THEN "profile" ELSE "idle"
  /\ toastShown' = LikeToast(outcome)
  /\ rejected' = IF outcome = "rejected" THEN "FeedCard.handleLike" ELSE "none"
  /\ UNCHANGED <<viewer, likeNotifs, pinnedRow, storyLikeRow, isLiked, likesCount,
                 isPinned, pinning, currentUser, liked, storyLikesCount, likeSaw,
                 pinPc, pinSaw, storyPc, storySaw, likeTaps, notFeed>>

\* const { data: profile } = await supabase.from('profiles')...single()
LikeProfileDone(outcome) ==
  /\ likePc = "profile"
  /\ likePc' = IF outcome = "thrown" THEN "idle" ELSE "notify"
  /\ toastShown' = LikeToast(outcome)
  /\ rejected' = "none"
  /\ UNCHANGED <<viewer, likes, likeNotifs, likesCreated, pinnedRow, storyLikeRow,
                 isLiked, likesCount, isPinned, pinning, currentUser, liked,
                 storyLikesCount, likeSaw, pinPc, pinSaw, storyPc, storySaw,
                 likeTaps, notFeed>>

\* await supabase.from('notifications').insert({ user_id: post.authorId, ... })
LikeNotifyDone(outcome) ==
  /\ likePc = "notify"
  /\ likeNotifs' =
       IF outcome = "ok"
         THEN Append(likeNotifs,
                     [user_id |-> PostAuthor, type |-> "like", actor_id |-> viewer])
         ELSE likeNotifs
  /\ likePc' = "idle"
  /\ toastShown' = LikeToast(outcome)
  /\ rejected' = IF outcome = "rejected" THEN "FeedCard.handleLike" ELSE "none"
  /\ UNCHANGED <<viewer, likes, likesCreated, pinnedRow, storyLikeRow, isLiked,
                 likesCount, isPinned, pinning, currentUser, liked, storyLikesCount,
                 likeSaw, pinPc, pinSaw, storyPc, storySaw, likeTaps, notFeed>>

\* loadLikes, on mount and on every change of likes the realtime channel reports
LoadLikes ==
  /\ likePc # "unmounted"
  /\ likesCount' = likes
  /\ isLiked' = IF viewer # NoUser THEN likes > 0 ELSE isLiked
  /\ toastShown' = "none"
  /\ rejected' = "none"
  /\ UNCHANGED <<viewer, likes, likeNotifs, likesCreated, pinnedRow, storyLikeRow,
                 isPinned, pinning, currentUser, liked, storyLikesCount, likePc,
                 likeSaw, pinPc, pinSaw, storyPc, storySaw, likeTaps, notFeed>>

\* loadPinStatus, when the card mounts
LoadPinStatus ==
  /\ pinPc = "idle"
  /\ viewer # NoUser
  /\ isPinned' = pinnedRow
  /\ toastShown' = "none"
  /\ rejected' = "none"
  /\ UNCHANGED <<viewer, likes, likeNotifs, likesCreated, pinnedRow, storyLikeRow,
                 isLiked, likesCount, pinning, currentUser, liked, storyLikesCount,
                 likePc, likeSaw, pinPc, pinSaw, storyPc, storySaw, likeTaps,
                 notFeed>>

\* onClick={handleTogglePin} disabled={pinning}: up to the await of getUser()
HandleTogglePin ==
  /\ pinPc = "idle"
  /\ ~pinning
  /\ pinPc' = "getUser"
  /\ pinSaw' = isPinned
  /\ toastShown' = "none"
  /\ rejected' = "none"
  /\ UNCHANGED <<viewer, likes, likeNotifs, likesCreated, pinnedRow, storyLikeRow,
                 isLiked, likesCount, isPinned, pinning, currentUser, liked,
                 storyLikesCount, likePc, likeSaw, storyPc, storySaw, likeTaps,
                 notFeed>>

\* if (!user) { toast(...); return; }  setPinning(true);
PinGetUserDone ==
  /\ pinPc = "getUser"
  /\ pinPc' = IF viewer = NoUser THEN "idle" ELSE "write"
  /\ pinning' = (viewer # NoUser)
  /\ toastShown' = IF viewer = NoUser THEN "Not authenticated" ELSE "none"
  /\ rejected' = "none"
  /\ UNCHANGED <<viewer, likes, likeNotifs, likesCreated, pinnedRow, storyLikeRow,
                 isLiked, likesCount, isPinned, currentUser, liked, storyLikesCount,
                 likePc, likeSaw, pinSaw, storyPc, storySaw, likeTaps, notFeed>>

\* the state and the toast of handleTogglePin after its write: the try block
\* runs on unless the await throws
PinShown(saw, was, outcome) ==
  IF outcome = "thrown"
    THEN [isPinned |-> was, toast |-> "Error"]
    ELSE [isPinned |-> ~saw, toast |-> IF saw THEN "Post unpinned" ELSE "Post pinned"]

\* the delete from or insert into pinned_posts, the rest of the try block,
\* catch and finally
PinWriteDone(outcome) ==
  /\ pinPc = "write"
  /\ outcome \in (IF pinSaw THEN Outcomes ELSE InsertAnswers(pinnedRow))
  /\ pinnedRow' = IF outcome = "ok" THEN ~pinSaw ELSE pinnedRow
  /\ isPinned' = PinShown(pinSaw, isPinned, outcome).isPinned
  /\ toastShown' = PinShown(pinSaw, isPinned, outcome).toast
  /\ pinning' = FALSE
  /\ pinPc' = "idle"
  /\ rejected' = IF outcome = "rejected" THEN "handleTogglePin" ELSE "none"
  /\ UNCHANGED <<viewer, likes, likeNotifs, likesCreated, storyLikeRow, isLiked,
                 likesCount, currentUser, liked, storyLikesCount, likePc, likeSaw,
                 pinSaw, storyPc, storySaw, likeTaps, notFeed>>

\* StoryViewer.loadCurrentUser
LoadCurrentUser ==
  /\ storyPc # "unmounted"
  /\ currentUser' = viewer
  /\ toastShown' = "none"
  /\ rejected' = "none"
  /\ UNCHANGED <<viewer, likes, likeNotifs, likesCreated, pinnedRow, storyLikeRow,
                 isLiked, likesCount, isPinned, pinning, liked, storyLikesCount,
                 likePc, likeSaw, pinPc, pinSaw, storyPc, storySaw, likeTaps,
                 notFeed>>

\* StoryViewer.loadStoryData: the count of story_likes and the viewer's own row
LoadStoryData ==
  /\ storyPc # "unmounted"
  /\ storyLikesCount' = IF storyLikeRow THEN 1 ELSE 0
  /\ liked' = IF currentUser # NoUser THEN storyLikeRow ELSE liked
  /\ toastShown' = "none"
  /\ rejected' = "none"
  /\ UNCHANGED <<viewer, likes, likeNotifs, likesCreated, pinnedRow, storyLikeRow,
                 isLiked, likesCount, isPinned, pinning, currentUser, likePc,
                 likeSaw, pinPc, pinSaw, storyPc, storySaw, likeTaps, notFeed>>

\* StoryViewer.handleLike up to its await: if (!currentUser || !currentStory) return
StoryHandleLike ==
  /\ storyPc = "idle"
  /\ storyPc' = IF currentUser = NoUser THEN "idle" ELSE "write"
  /\ storySaw' = liked
  /\ toastShown' = "none"
  /\ rejected' = "none"
  /\ UNCHANGED <<viewer, likes, likeNotifs, likesCreated, pinnedRow, storyLikeRow,
                 isLiked, likesCount, isPinned, pinning, currentUser, liked,
                 storyLikesCount, likePc, likeSaw, pinPc, pinSaw, likeTaps,
                 notFeed>>

\* the delete from or insert into story_likes, the rest of the try block and catch
StoryLikeWriteDone(outcome) ==
  /\ storyPc = "write"
  /\ outcome \in (IF storySaw THEN Outcomes ELSE InsertAnswers(storyLikeRow))
  /\ storyLikeRow' = IF outcome = "ok" THEN ~storySaw ELSE storyLikeRow
  /\ IF outcome = "thrown"
       THEN /\ toastShown' = "Error"
            /\ UNCHANGED <<liked, storyLikesCount>>
       ELSE /\ toastShown' = "none"
            /\ liked' = ~storySaw
            /\ storyLikesCount' = IF storySaw THEN storyLikesCount - 1
                                              ELSE storyLikesCount + 1
  /\ storyPc' = "idle"
  /\ rejected' = IF outcome = "rejected" THEN "StoryViewer.handleLike" ELSE "none"
  /\ UNCHANGED <<viewer, likes, likeNotifs, likesCreated, pinnedRow, isLiked,
                 likesCount, isPinned, pinning, currentUser, likePc, likeSaw,
                 pinPc, pinSaw, storySaw, likeTaps, notFeed>>

FeedNext ==
  \/ HandleLike
  \/ LikeGetUserDone
  \/ \E outcome \in Outcomes : LikeWriteDone(outcome)
  \/ \E outcome \in Outcomes : LikeProfileDone(outcome)
  \/ \E outcome \in Outcomes : LikeNotifyDone(outcome)
  \/ LoadLikes
  \/ LoadPinStatus
  \/ HandleTogglePin
  \/ PinGetUserDone
  \/ \E outcome \in Outcomes : PinWriteDone(outcome)
  \/ LoadCurrentUser
  \/ LoadStoryData
  \/ StoryHandleLike
  \/ \E outcome \in Outcomes : StoryLikeWriteDone(outcome)

\* a card of alice's post and a story open for a viewer, before any loader ran
FeedInit ==
  /\ viewer \in {NoUser, "alice", "bob"}
  /\ likes \in (IF viewer = NoUser THEN {0} ELSE {0, 1})
  /\ pinnedRow \in (IF viewer = NoUser THEN {FALSE} ELSE BOOLEAN)
  /\ storyLikeRow \in (IF viewer = NoUser THEN {FALSE} ELSE BOOLEAN)
  /\ likeNotifs = <<>>
  /\ likesCreated = 0
  /\ isLiked = FALSE /\ likesCount = 0 /\ isPinned = FALSE /\ pinning = FALSE
  /\ currentUser = NoUser /\ liked = FALSE /\ storyLikesCount = 0
  /\ likePc = "idle" /\ pinPc = "idle" /\ storyPc = "idle"
  /\ likeSaw = FALSE /\ pinSaw = FALSE /\ storySaw = FALSE
  /\ likeTaps = 0
  /\ toastShown = "none"
  /\ rejected = "none"

\* no card and no story viewer is mounted
NoFeed ==
  /\ viewer = NoUser
  /\ likes = 0 /\ pinnedRow = FALSE /\ storyLikeRow = FALSE
  /\ likeNotifs = <<>>
  /\ likesCreated = 0
  /\ isLiked = FALSE /\ likesCount = 0 /\ isPinned = FALSE /\ pinning = FALSE
  /\ currentUser = NoUser /\ liked = FALSE /\ storyLikesCount = 0
  /\ likePc = "unmounted" /\ pinPc = "unmounted" /\ storyPc = "unmounted"
  /\ likeSaw = FALSE /\ pinSaw = FALSE /\ storySaw = FALSE
  /\ likeTaps = 0
  /\ toastShown = "none"
  /\ rejected = "none"

(***************************************************************************)
(* Specifications.                                                         *)
(***************************************************************************)
vars == <<imgVars, dbVars, storyVars, restVars>>

StoriesNext ==
  \/ \E uid \in AuthUsers \cup {NoUser} : PublishStory(uid)
  \/ \E skew \in ClockSkews : LoadStories(skew)
  \/ \E uid \in AuthUsers, row \in stories : DeleteStory(uid, row)
  \/ \E uid \in AuthUsers, row \in stories : UpdateStoryExpiry(uid, row, MaxClock + StoryTTL)
  \/ StoryTick

RestIdle == NoElements /\ RlsInit /\ NoComposer /\ NoFeed

InitMgr == MgrInit /\ NoPosts /\ StoriesInit /\ RestIdle

InitImg == ImgInit /\ NoPosts /\ StoriesInit /\ RestIdle

InitPosts == NoImages /\ PostsInit /\ StoriesInit /\ RestIdle

InitStories == NoImages /\ NoPosts /\ StoriesInit /\ RestIdle

InitFallback == NoImages /\ NoPosts /\ StoriesInit /\ FallbackInit /\ RlsInit /\ NoComposer /\ NoFeed

InitRls == NoImages /\ NoPosts /\ StoriesInit /\ NoElements /\ RlsInit /\ NoComposer /\ NoFeed

InitComposer == NoImages /\ NoPosts /\ StoriesInit /\ NoElements /\ RlsInit /\ ComposerInit /\ NoFeed

\* the load manager shared by a page of SafeImages
SpecMgr == InitMgr /\ [][ImgNext]_vars

\* one SafeImage with any props
SpecImg == InitImg /\ [][SingleNext]_vars

\* one SafeImage whose requests are all answered and whose timers all fire
SpecImgFair == InitImg /\ [][SingleNext]_vars /\ WF_vars(SingleNext)

\* posts, rewards and notifications
SpecPosts == InitPosts /\ [][PostsNext]_vars

\* stories
SpecStories == InitStories /\ [][StoriesNext]_vars

\* createSafeImageFallback on plain <img> elements
SpecFallback == InitFallback /\ [][FallbackNext]_vars

\* the six tables under statements of any client
SpecRls == InitRls /\ [][RlsNext]_vars

\* a Composer page
SpecComposer == InitComposer /\ [][ComposerNext]_vars

InitFeed ==
  NoImages /\ NoPosts /\ StoriesInit /\ NoElements /\ RlsInit /\ NoComposer /\ FeedInit

\* a FeedCard and a StoryViewer
SpecFeed == InitFeed /\ [][FeedNext]_vars

(***************************************************************************)
(* Properties.                                                             *)
(***************************************************************************)
\* instances whose load holds a slot of the manager
SlotHolders == {i \in Images : pc[i] \in {"stagger", "validating", "loading"}}

InQueue(i) == \E k \in 1..Len(queue) : queue[k] = i

\* C1: across all SafeImages sharing the load manager, at most 4 loads hold
\* an active slot at any moment (activeLoads <= 4), whatever the
\* interleaving of starts, successes, errors, validation failures, retries.
C1_AtMostFourActive ==
  /\ activeLoads <= 4
  /\ Cardinality(SlotHolders) <= 4

\* four loads active, a fifth queued, while one instance waits to retry
C1_Witness ==
  /\ activeLoads = 4
  /\ Len(queue) > 0
  /\ \E i \in Images : retryCount[i] > 0

\* C2: with the default maxRetries a source URL is requested at most 3
\* times before SafeImage gives up on it.
C2_AtMostThreeAttempts ==
  \A i \in Images : \A k \in 1..MaxSources :
    maxRetries[i] = DefaultMaxRetries => requests[i][k] <= 3

\* C3: the timer set after failed attempt k is at least 2^k s and less than
\* 2^k + 1 s, and the attempt counter goes up (a retry of the same source
\* starts) only from that timer, after at least 2^k s have passed.
C3_ExponentialBackoff ==
  /\ [](\A i \in Images : pc[i] = "backoff" =>
          /\ delay[i] >= (2 ^ attempt[i]) * 1000
          /\ delay[i] < (2 ^ attempt[i]) * 1000 + 1000)
  /\ [][\A i \in Images :
          /\ (pc[i] = "backoff" /\ pc'[i] # "backoff") =>
               /\ waited[i] >= (2 ^ attempt[i]) * 1000
               /\ attempt'[i] = attempt[i] + 1
               /\ srcIdx'[i] = srcIdx[i]
          /\ attempt'[i] > attempt[i] =>
               /\ pc[i] = "backoff"
               /\ waited[i] >= (2 ^ attempt[i]) * 1000]_vars

\* the third retry of a source is due after the longest wait, 4.999 s
C3_Witness ==
  /\ pc[1] = "backoff"
  /\ attempt[1] = 2
  /\ delay[1] = 4999
  /\ waited[1] = 4999

\* C4: in demo mode at most 3 image downloads are active at once.
C4_DemoAtMostThreeActive == demoMode => activeLoads <= 3

\* C5: in demo mode an instance with demoSkipIndex >= 3 never holds or
\* waits for a slot and never requests its src, the placeholder (or the
\* bundled fallback image) is what it shows; an instance with
\* demoSkipIndex 0..2 (lowBandwidth not set) goes through the load manager
\* and, once done, shows the source that loaded.
C5_DemoSkip ==
  \A i \in Images :
    /\ (demoMode /\ demoSkipIndex[i] # NoIndex /\ demoSkipIndex[i] >= 3) =>
         /\ i \notin SlotHolders
         /\ ~InQueue(i)
         /\ \A k \in 1..MaxSources : requests[i][k] = 0
         /\ Render(i) \subseteq {"placeholder", FALLBACK_IMAGE}
         /\ (pc[i] # "idle" => pc[i] = "done")
    /\ (demoMode /\ demoSkipIndex[i] \in 0..2 /\ ~lowBandwidth[i] /\ pc[i] # "idle") =>
         /\ sourceState[i][1] # "untried"
         /\ pc[i] = "done" =>
              /\ currentSrc[i] = Url(i)
              /\ requests[i][srcIdx[i]] >= 1

\* a skipped instance in demo mode, after its effect ran
C5_Witness ==
  /\ demoMode
  /\ demoSkipIndex[1] = 3
  /\ ~lowBandwidth[1]
  /\ pc[1] = "done"
  /\ currentSrc[1] = FALLBACK_IMAGE

\* the chains of README-image-loading.md
DocumentedBrandChain == <<ClearbitUrl, LocalLogoUrl, DefaultLogoUrl>>

DocumentedAvatarChain == <<DicebearUrl, PravatarUrl, FALLBACK_AVATAR>>

GivenUp(i, k) ==
  \/ sourceState[i][k] = "exhausted" /\ requests[i][k] = maxRetries[i] + 1
  \/ sourceState[i][k] = "invalid" /\ requests[i][k] = 0

\* C6: the sources of a brand logo or avatar src (no fallback prop) are
\* tried in the documented order; a later source is tried only after the
\* earlier one gave up (all its attempts failed, or its URL check failed);
\* once a source loads it is displayed and no later source is requested.
C6_FallbackOrder ==
  \A i \in Images : \A k \in 1..Len(Sources(i)) :
    /\ sourceState[i][k] # "untried" =>
         /\ \A j \in 1..(k - 1) : GivenUp(i, j)
         /\ (fallback[i] = NoFallback /\ src[i] = ClearbitUrl) =>
              Sources(i)[k] = DocumentedBrandChain[k]
         /\ (fallback[i] = NoFallback /\ src[i] \in {DicebearUrl, PravatarUrl}) =>
              Sources(i)[k] = DocumentedAvatarChain[k]
    /\ requests[i][k] > 0 => sourceState[i][k] # "untried"
    /\ sourceState[i][k] = "loaded" =>
         /\ pc[i] = "done"
         /\ currentSrc[i] = Sources(i)[k]
         /\ \A j \in (k + 1)..MaxSources :
              sourceState[i][j] = "untried" /\ requests[i][j] = 0

\* Clearbit failed all its attempts and the brand's local logo is shown
C6_Witness ==
  /\ src[1] = ClearbitUrl
  /\ fallback[1] = NoFallback
  /\ sourceState[1][1] = "exhausted"
  /\ sourceState[1][2] = "loaded"
  /\ currentSrc[1] = LocalLogoUrl

HasLocalLastResort(i) ==
  /\ src[i] # ""
  /\ fallback[i] = NoFallback
  /\ ~Includes(src[i], "supabase.co/storage")

C8_RewardsAccount ==
  \A u \in Profiles :
    rewards[u] = rewards0[u] + 100 * sparkInserts[u] + 50 * postInserts[u]

PostsOf(u) == {p \in posts : p.user_id = u}

\* a user inserted a spark and a post and deleted one of them
C8_Witness ==
  \E u \in Profiles :
    /\ sparkInserts[u] = 1
    /\ postInserts[u] = 1
    /\ Cardinality(PostsOf(u)) = 1
    /\ \E v \in Profiles : v # u /\ sparkInserts[v] + postInserts[v] = 1

\* C9: every row of posts has exactly one 'reward' notification with its
\* post_id, addressed to its author, and its author's rewards include its
\* points.
C9_OneRewardNotification ==
  \A p \in posts :
    /\ CopiesIn([user_id |-> p.user_id, type |-> "reward", post_id |-> p.id],
                notifications) = 1
    /\ \A n \in BagToSet(notifications) :
         (n.type = "reward" /\ n.post_id = p.id) => n.user_id = p.user_id
    /\ rewards[p.user_id] >= rewards0[p.user_id] + (IF p.is_spark THEN 100 ELSE 50)

\* a post with its reward notification and the Composer's own notification
C9_Witness ==
  \E p \in posts :
    /\ CopiesIn([user_id |-> p.user_id, type |-> "reward", post_id |-> p.id],
                notifications) = 1
    /\ CopiesIn([user_id |-> p.user_id, type |-> "post", post_id |-> p.id],
                notifications) = 1
    /\ nextPostId > Cardinality(posts) + 1

RECURSIVE SumTo(_, _)
\* f[1] + ... + f[n]
SumTo(f, n) == IF n = 0 THEN 0 ELSE f[n] + SumTo(f, n - 1)

DisplayingImage(i) == currentSrc[i] # "" /\ ~isLoading[i]

\* the final error state of loadWithFallbacks
AllFailedState(i) == currentSrc[i] = "" /\ ~isLoading[i] /\ error[i] = ErrAllFailed

\* C19: loadWithFallbacks sets img.src at most sources x (maxRetries + 1)
\* times; every request being answered and every timer firing, a SafeImage
\* with a src ends displaying an image with isLoading false or in the state
\* currentSrc = '', isLoading = false, error = 'All image sources failed';
\* from then on nothing is requested and the state stays.
C19_LoadWithFallbacksTerminates ==
  /\ [](\A i \in Images :
          SumTo(requests[i], MaxSources) <= Len(Sources(i)) * (maxRetries[i] + 1))
  /\ \A i \in Images :
       (src[i] # "") ~> (DisplayingImage(i) \/ AllFailedState(i))
  /\ [][\A i \in Images :
          (DisplayingImage(i) \/ AllFailedState(i)) =>
             /\ requests'[i] = requests[i]
             /\ currentSrc'[i] = currentSrc[i]
             /\ isLoading'[i] = isLoading[i]
             /\ error'[i] = error[i]]_vars

\* every source of a three-source chain used up all its attempts
C19_Witness ==
  \E i \in Images :
    /\ AllFailedState(i)
    /\ Len(Sources(i)) = 3
    /\ SumTo(requests[i], MaxSources) = 3 * (maxRetries[i] + 1)

\* C20: createSafeImageFallback loads the original URL at most 3 times and
\* the fallback URL at most once: after img.src was set to fallbackSrc no
\* further load is started, even if the fallback fails to load.
C20_BoundedAttempts ==
  \A e \in Elements : originalLoads[e] <= 3 /\ fallbackLoads[e] <= 1

\* C11 as stated: a statement of a client inserts only rows with the
\* client's user_id and leaves every row of another user, in each of the
\* six tables, as it was.
C11_OthersRowsUnchanged ==
  [][\A t \in Tables :
       /\ \A r \in tables'[t] \ tables[t] : r.user_id = actor'
       /\ \A r \in tables[t] : r.user_id # actor' => r \in tables'[t]]_vars

\* C11 amended: a statement of a client inserts only rows with the
\* client's user_id, and a row of another user goes away only from
\* story_likes or story_comments, when the client deletes a story of its
\* own that the row points at (ON DELETE CASCADE); rows of other users in
\* stories, reposts, pinned_posts and comment_likes are left as they were,
\* and no row is ever altered.
C11_OwnRowsOrCascade ==
  [][\A t \in Tables :
       /\ \A r \in tables'[t] \ tables[t] : r.user_id = actor'
       /\ \A r \in tables[t] \ tables'[t] :
            \/ r.user_id = actor'
            \/ /\ t \in StoryChildren
               /\ \E st \in tables["stories"] \ tables'["stories"] :
                    st.id = r.ref /\ st.user_id = actor']_vars

\* alice deleted her story and bob's like of it went with it
C11_Witness ==
  /\ rlsResult = "deleted"
  /\ actor = "alice"
  /\ \E r \in cascaded : r.user_id = "bob"
  /\ \E r \in tables["reposts"] : r.user_id = "bob"

\* C12: pinned_posts, reposts, comment_likes and story_likes never hold two
\* rows with the same user_id and the same post, comment or story.
C12_OneRowPerPair ==
  \A t \in UniqueTables : \A r1 \in tables[t], r2 \in tables[t] :
    (r1.user_id = r2.user_id /\ r1.ref = r2.ref) => r1.id = r2.id

\* a second pin of the same post by the same user was turned down
C12_Witness ==
  /\ rlsResult = "unique_violation"
  /\ actor = "bob"
  /\ \E r \in tables["pinned_posts"] : r.user_id = "bob"
  /\ nextRowId = 2

\* C13: every posts row Composer inserts with is_spark = true goes with an
\* uploaded file whose type starts with video/, and every non-spark row
\* with a file goes with an image file.
C13_SparksAreVideos ==
  \A p \in posts : \A pf \in postFiles :
    pf.post_id = p.id =>
      /\ p.is_spark => StartsWith(pf.file_type, "video/")
      /\ (~p.is_spark /\ pf.file_type # "") => StartsWith(pf.file_type, "image/")

\* handlePublish has nothing to publish: blank caption and no file, or a
\* spark without a file
NothingToPublish ==
  \/ Trim(caption) = "" /\ selectedFile = NoFile
  \/ postType = "spark" /\ selectedFile = NoFile

\* C14: while the caption is blank and no file is selected, or the type is
\* spark and no file is selected, a call of handlePublish starts nothing: no
\* upload, no posts or notifications row, and uploading stays false; with
\* no authenticated user nothing is uploaded or inserted either, and the
\* call returns with uploading false.
C14_PublishGuards ==
  /\ [][(composerPc = "idle" /\ NothingToPublish) =>
          /\ uploads' = uploads
          /\ posts' = posts
          /\ notifications' = notifications
          /\ composerPc' = "idle"
          /\ ~uploading']_vars
  /\ [][session = NoUser =>
          /\ uploads' = uploads
          /\ posts' = posts
          /\ notifications' = notifications
          /\ composerPc' \notin {"upload", "insert", "notify"}
          /\ (composerPc = "getUser" /\ composerPc' # "getUser") =>
               (~uploading' /\ composerPc' = "left"
                /\ composerToast' = "Not authenticated")]_vars

\* a call with an image selected and nobody signed in has returned
C14_Witness ==
  /\ composerToast = "Not authenticated"
  /\ composerPc = "left"
  /\ ~uploading
  /\ selectedFile # NoFile
  /\ uploads = {} /\ posts = {}

\* C15: when the backend rejects the write issued by FeedCard.handleLike,
\* FeedCard.handleTogglePin or StoryViewer.handleLike, the user gets a
\* destructive error toast and is shown no success outcome for that write:
\* isPinned, liked, isLiked and both like counts stay as they were.
C15_RejectedWriteShowsError ==
  [][rejected' # "none" =>
       /\ Destructive(toastShown')
       /\ isPinned' = isPinned
       /\ liked' = liked
       /\ storyLikesCount' = storyLikesCount
       /\ isLiked' = isLiked
       /\ likesCount' = likesCount]_vars

\* C16: handleLike creates no notification when the liker is the post's
\* author or when the action is an unlike; when another user likes the post,
\* each likes row it creates comes with exactly one notification of type
\* 'like' addressed to the post's author.
C16_OneNotificationPerLike ==
  likePc = "idle" =>
    /\ \A k \in 1..Len(likeNotifs) :
         /\ likeNotifs[k].type = "like"
         /\ likeNotifs[k].user_id = PostAuthor
         /\ likeNotifs[k].actor_id # PostAuthor
    /\ Len(likeNotifs) = (IF viewer = PostAuthor THEN 0 ELSE likesCreated)

====
